---- MODULE Spec2Model ----
(***************************************************************************)
(* Chunk and page metadata of pco (src/pco/src/chunk_metadata.rs): the     *)
(* in-memory records, their bit-exact serialization (write_to), their      *)
(* parsing (parse_from), the back-patch of compressed_body_size and the    *)
(* trivial-stream query.                                                   *)
(*                                                                         *)
(* A bit stream is a sequence of 0/1.  A reader is a (bits, pos) pair, pos *)
(* being the number of bits already consumed.  Every parse operator        *)
(* returns a record with an "err" field: "none" on success, otherwise the  *)
(* kind of the PcoError that the `?` operator propagates.                  *)
(*                                                                         *)
(* The bit-stream primitives, the field widths (crate::constants), Mode,   *)
(* DeltaMoments and the bin helpers live outside chunk_metadata.rs; they   *)
(* are modelled from their contracts.  The field widths and U::BITS are    *)
(* scaled down so that every stream can be enumerated.                     *)
(***************************************************************************)
EXTENDS Integers, Sequences, FiniteSets, TLC

(***************************************************************************)
(* Widths.  U::BITS and the BITS_TO_ENCODE_* widths are format parameters  *)
(* of the crate; the model fixes small ones.                               *)
(***************************************************************************)
UBITS == 4

BITS_TO_ENCODE_N_ENTRIES == 10

BITS_TO_ENCODE_COMPRESSED_BODY_SIZE == 6

BITS_TO_ENCODE_MODE == 3

BITS_TO_ENCODE_DELTA_ENCODING_ORDER == 3

BITS_TO_ENCODE_ANS_SIZE_LOG == 3

BITS_TO_ENCODE_N_BINS == 3

ANS_INTERLEAVING == 4

\* The aligned byte the standalone format puts in front of a chunk's metadata.
MAGIC_CHUNK_BYTE == 44

\* Largest number of bins of a generated bucket table.
MaxBins == 2

\* Largest ans_size_log of a generated bucket table.
MaxAnsSizeLog == 2

\* Largest number of bytes a standalone stream holds before the chunk begins.
MaxPriorBytes == 1

UMAX == 2^UBITS - 1

(***************************************************************************)
(* Bit-stream primitives (crate::bit_writer, crate::bit_reader).           *)
(***************************************************************************)
\* The n low bits of x, most significant first.
BitsOf(x, n) ==
  [i \in 1..n |-> ((x % (2^n)) \div (2^(n - i))) % 2]

RECURSIVE ValueAt(_, _, _)
\* The unsigned value of the n bits that follow position pos.
ValueAt(bits, pos, n) ==
  IF n = 0 THEN 0 ELSE 2 * ValueAt(bits, pos, n - 1) + bits[pos + n]

write_usize(w, v, n) ==
  [w EXCEPT !.bits = @ \o BitsOf(v, n)]

write_diff(w, v, n) ==
  [w EXCEPT !.bits = @ \o BitsOf(v, n)]

write_bitlen(w, v, n) ==
  [w EXCEPT !.bits = @ \o BitsOf(v, n)]

write_aligned_byte(w, byte) ==
  [w EXCEPT !.bits = @ \o BitsOf(byte, 8)]

\* Zero bits up to the next byte boundary.
finish_byte(w) ==
  LET pad == (8 - (Len(w.bits) % 8)) % 8
  IN  [w EXCEPT !.bits = @ \o [i \in 1..pad |-> 0]]

\* Replaces the n bits that follow absolute bit offset idx by the n low bits of v.
overwrite_usize(w, idx, v, n) ==
  LET old == w.bits
      new == BitsOf(v, n)
  IN  [w EXCEPT !.bits =
         [i \in 1..Len(old) |->
            IF i > idx /\ i <= idx + n THEN new[i - idx] ELSE old[i]]]

read_uint(bits, pos, n) ==
  IF pos + n > Len(bits)
    THEN [err |-> "insufficient_data", val |-> 0, pos |-> pos]
    ELSE [err |-> "none", val |-> ValueAt(bits, pos, n), pos |-> pos + n]

read_usize(bits, pos, n) ==
  read_uint(bits, pos, n)

read_bitlen(bits, pos, n) ==
  read_uint(bits, pos, n)

\* Consumes the rest of the current byte; corruption if any of it is non-zero.
drain_empty_byte(bits, pos) ==
  LET rest == (8 - (pos % 8)) % 8
  IN  IF pos + rest > Len(bits)
        THEN [err |-> "insufficient_data", pos |-> pos]
        ELSE IF \E i \in (pos + 1)..(pos + rest) : bits[i] # 0
          THEN [err |-> "corruption", pos |-> pos]
          ELSE [err |-> "none", pos |-> pos + rest]

\* ceil(log2(U::BITS + 1)): the width of a bin's offset_bits field.
bits_to_encode_offset_bits ==
  CHOOSE k \in 0..(UBITS + 1) :
    2^k >= UBITS + 1 /\ (k = 0 \/ 2^(k - 1) < UBITS + 1)

(***************************************************************************)
(* Floats (crate::data_types::FloatLike).  A float is held as its bit      *)
(* pattern on UBITS bits, the top bit being the sign; to_unsigned is the   *)
(* order-preserving reinterpretation and from_unsigned its inverse.        *)
(***************************************************************************)
to_unsigned(f) ==
  IF f >= 2^(UBITS - 1) THEN UMAX - f ELSE f + 2^(UBITS - 1)

from_unsigned(u) ==
  IF u >= 2^(UBITS - 1) THEN u - 2^(UBITS - 1) ELSE UMAX - u

(***************************************************************************)
(* Mode (crate::modes).                                                    *)
(***************************************************************************)
Classic == [tag |-> "Classic", base |-> 0]

Gcd == [tag |-> "Gcd", base |-> 0]

FloatMult(base) == [tag |-> "FloatMult", base |-> base]

n_latents(mode) ==
  IF mode.tag = "FloatMult" THEN 2 ELSE 1

\* Latent 0 carries the chunk's delta order, the auxiliary latent none.
mode_latent_delta_order(mode, latent_idx, delta_order) ==
  IF latent_idx = 0 THEN delta_order ELSE 0

(***************************************************************************)
(* Bin helpers (crate::bin, crate::modes::gcd).                            *)
(***************************************************************************)
bins_are_trivial(bins) ==
  Len(bins) = 0 \/ (Len(bins) = 1 /\ bins[1].offset_bits = 0)

use_gcd_arithmetic(bins) ==
  \E i \in 1..Len(bins) : bins[i].gcd > 1 /\ bins[i].offset_bits > 0

(***************************************************************************)
(* The writer: the bits written so far, and two counters that only record  *)
(* what was written (latent records and gcd fields).                       *)
(***************************************************************************)
NewWriter == [bits |-> <<>>, latents |-> 0, gcds |-> 0]

RECURSIVE write_bins_loop_gcd_in_every_mode(_, _, _, _, _)
\* write_bins' loop, were the gcd written whenever offset_bits > 0.
write_bins_loop_gcd_in_every_mode(w, bins, mode, ans_size_log, i) ==
  IF i > Len(bins) THEN w
  ELSE
    LET bin == bins[i]
        w1 == write_diff(w, bin.weight - 1, ans_size_log)
        w2 == write_diff(w1, bin.lower, UBITS)
        w3 == write_bitlen(w2, bin.offset_bits, bits_to_encode_offset_bits)
        w4 == IF bin.offset_bits > 0
                THEN [write_diff(w3, bin.gcd, UBITS) EXCEPT !.gcds = @ + 1]
                ELSE w3
    IN  write_bins_loop_gcd_in_every_mode(w4, bins, mode, ans_size_log, i + 1)

RECURSIVE write_bins_loop(_, _, _, _, _)
write_bins_loop(w, bins, mode, ans_size_log, i) ==
  IF i > Len(bins) THEN w
  ELSE
    LET bin == bins[i]
        w1 == write_diff(w, bin.weight - 1, ans_size_log)
        w2 == write_diff(w1, bin.lower, UBITS)
        w3 == write_bitlen(w2, bin.offset_bits, bits_to_encode_offset_bits)
        w4 == IF mode.tag = "Gcd" /\ bin.offset_bits > 0
                THEN [write_diff(w3, bin.gcd, UBITS) EXCEPT !.gcds = @ + 1]
                ELSE w3
    IN  write_bins_loop(w4, bins, mode, ans_size_log, i + 1)

write_bins(w, bins, mode, ans_size_log) ==
  write_bins_loop(write_usize(w, Len(bins), BITS_TO_ENCODE_N_BINS),
                  bins, mode, ans_size_log, 1)

ChunkLatentMetadata_write_to(w, latent, mode) ==
  LET w1 == write_bitlen(w, latent.ans_size_log, BITS_TO_ENCODE_ANS_SIZE_LOG)
      w2 == write_bins(w1, latent.bins, mode, latent.ans_size_log)
  IN  [w2 EXCEPT !.latents = @ + 1]

RECURSIVE write_latents_loop(_, _, _, _)
write_latents_loop(w, latents, mode, i) ==
  IF i > Len(latents) THEN w
  ELSE write_latents_loop(ChunkLatentMetadata_write_to(w, latents[i], mode),
                          latents, mode, i + 1)

\* The mode tag, were Gcd written with Classic's tag.
mode_value_gcd_as_classic(mode) ==
  CASE mode.tag = "Classic" -> 0
    [] mode.tag = "Gcd" -> 0
    [] mode.tag = "FloatMult" -> 2

mode_value(mode) ==
  CASE mode.tag = "Classic" -> 0
    [] mode.tag = "Gcd" -> 1
    [] mode.tag = "FloatMult" -> 2

\* write_to's fields, were the latent loop to run over the mode's latent
\* count instead of over the latents the value holds.
ChunkMetadata_write_fields_by_mode(w, meta, use_wrapped_mode) ==
  LET w1 == IF ~use_wrapped_mode
              THEN write_usize(
                     write_usize(w, meta.n, BITS_TO_ENCODE_N_ENTRIES),
                     meta.compressed_body_size,
                     BITS_TO_ENCODE_COMPRESSED_BODY_SIZE)
              ELSE w
      w2 == write_usize(w1, mode_value(meta.mode), BITS_TO_ENCODE_MODE)
      w3 == IF meta.mode.tag = "FloatMult"
              THEN write_diff(w2, to_unsigned(meta.mode.base), UBITS)
              ELSE w2
      w4 == write_usize(w3, meta.delta_encoding_order,
                        BITS_TO_ENCODE_DELTA_ENCODING_ORDER)
      k  == IF n_latents(meta.mode) < Len(meta.latents)
              THEN n_latents(meta.mode) ELSE Len(meta.latents)
  IN  write_latents_loop(w4, SubSeq(meta.latents, 1, k), meta.mode, 1)

\* Everything ChunkMetadata::write_to writes before the final finish_byte.
ChunkMetadata_write_fields(w, meta, use_wrapped_mode) ==
  LET w1 == IF ~use_wrapped_mode
              THEN write_usize(
                     write_usize(w, meta.n, BITS_TO_ENCODE_N_ENTRIES),
                     meta.compressed_body_size,
                     BITS_TO_ENCODE_COMPRESSED_BODY_SIZE)
              ELSE w
      w2 == write_usize(w1, mode_value(meta.mode), BITS_TO_ENCODE_MODE)
      w3 == IF meta.mode.tag = "FloatMult"
              THEN write_diff(w2, to_unsigned(meta.mode.base), UBITS)
              ELSE w2
      w4 == write_usize(w3, meta.delta_encoding_order,
                        BITS_TO_ENCODE_DELTA_ENCODING_ORDER)
  IN  write_latents_loop(w4, meta.latents, meta.mode, 1)

\* write_to, were the final finish_byte left out.
ChunkMetadata_write_to_unpadded(w, meta, use_wrapped_mode) ==
  ChunkMetadata_write_fields(w, meta, use_wrapped_mode)

ChunkMetadata_write_to(w, meta, use_wrapped_mode) ==
  finish_byte(ChunkMetadata_write_fields(w, meta, use_wrapped_mode))

\* The back-patch, were the byte that precedes the metadata not counted.
ChunkMetadata_update_write_compressed_body_size_no_byte(w, meta, bit_idx) ==
  overwrite_usize(w, bit_idx + BITS_TO_ENCODE_N_ENTRIES,
                  meta.compressed_body_size,
                  BITS_TO_ENCODE_COMPRESSED_BODY_SIZE)

ChunkMetadata_update_write_compressed_body_size(w, meta, bit_idx) ==
  overwrite_usize(w, bit_idx + BITS_TO_ENCODE_N_ENTRIES + 8,
                  meta.compressed_body_size,
                  BITS_TO_ENCODE_COMPRESSED_BODY_SIZE)

(***************************************************************************)
(* Parsing.  NoMeta and <<>> stand for "no value": a Rust Err carries      *)
(* none.  `latents` and `gcds` count the latent records and the gcd fields *)
(* that were read; `pos` is the reader's position when the call returns.   *)
(***************************************************************************)
NoMeta ==
  [n |-> 0, compressed_body_size |-> 0, mode |-> [tag |-> "none", base |-> 0],
   delta_encoding_order |-> 0, latents |-> <<>>]

BinsErr(kind, pos, gcds) ==
  [err |-> kind, bins |-> <<>>, pos |-> pos, gcds |-> gcds]

\* `let v = e; K(v)`: e is evaluated once and K reads the value.
Bind(e, K(_)) ==
  CHOOSE out \in {K(v) : v \in {e}} : TRUE

RECURSIVE parse_bins_loop(_, _, _, _, _, _, _)
\* The `for _ in 0..n_bins` loop of parse_bins, `left` bins still to read.
parse_bins_loop(bits, pos, mode, ans_size_log, left, bins, gcds) ==
  IF left = 0
    THEN [err |-> "none", bins |-> bins, pos |-> pos, gcds |-> gcds]
  ELSE
    Bind(read_uint(bits, pos, ans_size_log), LAMBDA wr :
      IF wr.err # "none" THEN BinsErr(wr.err, wr.pos, gcds)
      ELSE Bind(read_uint(bits, wr.pos, UBITS), LAMBDA lr :
        IF lr.err # "none" THEN BinsErr(lr.err, lr.pos, gcds)
        ELSE Bind(read_bitlen(bits, lr.pos, bits_to_encode_offset_bits), LAMBDA or :
          IF or.err # "none" THEN BinsErr(or.err, or.pos, gcds)
          ELSE IF or.val > UBITS THEN BinsErr("corruption", or.pos, gcds)
          ELSE Bind(IF mode.tag = "Gcd" /\ or.val # 0
                      THEN read_uint(bits, or.pos, UBITS) @@ [read |-> 1]
                      ELSE [err |-> "none", val |-> 1, pos |-> or.pos, read |-> 0],
                    LAMBDA gr :
            IF gr.err # "none" THEN BinsErr(gr.err, gr.pos, gcds)
            ELSE parse_bins_loop(
                   bits, gr.pos, mode, ans_size_log, left - 1,
                   Append(bins, [weight |-> wr.val + 1, lower |-> lr.val,
                                 offset_bits |-> or.val, gcd |-> gr.val]),
                   gcds + gr.read)))))

\* parse_bins, were the single-bin check left out.
parse_bins_single_bin_unchecked(bits, pos, mode, ans_size_log) ==
  Bind(read_usize(bits, pos, BITS_TO_ENCODE_N_BINS), LAMBDA nr :
    IF nr.err # "none" THEN BinsErr(nr.err, nr.pos, 0)
    ELSE IF 2^ans_size_log < nr.val THEN BinsErr("corruption", nr.pos, 0)
    ELSE parse_bins_loop(bits, nr.pos, mode, ans_size_log, nr.val, <<>>, 0))

\* parse_bins, were the bin count not compared with 2^ans_size_log.
parse_bins_count_unchecked(bits, pos, mode, ans_size_log) ==
  Bind(read_usize(bits, pos, BITS_TO_ENCODE_N_BINS), LAMBDA nr :
    IF nr.err # "none" THEN BinsErr(nr.err, nr.pos, 0)
    ELSE IF nr.val = 1 /\ ans_size_log > 0
      THEN BinsErr("corruption", nr.pos, 0)
    ELSE parse_bins_loop(bits, nr.pos, mode, ans_size_log, nr.val, <<>>, 0))

parse_bins(bits, pos, mode, ans_size_log) ==
  Bind(read_usize(bits, pos, BITS_TO_ENCODE_N_BINS), LAMBDA nr :
    IF nr.err # "none" THEN BinsErr(nr.err, nr.pos, 0)
    ELSE IF 2^ans_size_log < nr.val THEN BinsErr("corruption", nr.pos, 0)
    ELSE IF nr.val = 1 /\ ans_size_log > 0
      THEN BinsErr("corruption", nr.pos, 0)
    ELSE parse_bins_loop(bits, nr.pos, mode, ans_size_log, nr.val, <<>>, 0))

ChunkLatentMetadata_parse_from(bits, pos, mode) ==
  Bind(read_bitlen(bits, pos, BITS_TO_ENCODE_ANS_SIZE_LOG), LAMBDA ar :
    IF ar.err # "none"
      THEN [err |-> ar.err, latent |-> <<>>, pos |-> ar.pos, gcds |-> 0]
    ELSE Bind(parse_bins(bits, ar.pos, mode, ar.val), LAMBDA br :
      IF br.err # "none"
        THEN [err |-> br.err, latent |-> <<>>, pos |-> br.pos,
              gcds |-> br.gcds]
        ELSE [err |-> "none",
              latent |-> [ans_size_log |-> ar.val, bins |-> br.bins],
              pos |-> br.pos, gcds |-> br.gcds]))

RECURSIVE parse_latents_loop(_, _, _, _, _, _)
\* The `for _ in 0..n_latents` loop of ChunkMetadata::parse_from.
parse_latents_loop(bits, pos, mode, left, latents, gcds) ==
  IF left = 0
    THEN [err |-> "none", latents |-> latents, pos |-> pos, gcds |-> gcds]
  ELSE
    Bind(ChunkLatentMetadata_parse_from(bits, pos, mode), LAMBDA r :
      IF r.err # "none"
        THEN [err |-> r.err, latents |-> latents, pos |-> r.pos,
              gcds |-> gcds + r.gcds]
        ELSE parse_latents_loop(bits, r.pos, mode, left - 1,
                                Append(latents, r.latent), gcds + r.gcds))

MetaErr(kind, pos, latents, gcds) ==
  [err |-> kind, value |-> NoMeta, pos |-> pos, latents |-> latents,
   gcds |-> gcds]

ModeErr(kind, pos) ==
  [err |-> kind, mode |-> NoMeta.mode, pos |-> pos]

\* The mode match, were an unknown tag to fall back to Classic.
parse_mode_default_classic(bits, pos) ==
  Bind(read_usize(bits, pos, BITS_TO_ENCODE_MODE), LAMBDA tr :
    IF tr.err # "none" THEN ModeErr(tr.err, tr.pos)
    ELSE IF tr.val = 1 THEN [err |-> "none", mode |-> Gcd, pos |-> tr.pos]
    ELSE IF tr.val = 2
      THEN Bind(read_uint(bits, tr.pos, UBITS), LAMBDA fr :
             IF fr.err # "none" THEN ModeErr(fr.err, fr.pos)
             ELSE [err |-> "none", mode |-> FloatMult(from_unsigned(fr.val)),
                   pos |-> fr.pos])
    ELSE [err |-> "none", mode |-> Classic, pos |-> tr.pos])

\* The `match reader.read_usize(BITS_TO_ENCODE_MODE)?` of parse_from.
parse_mode(bits, pos) ==
  Bind(read_usize(bits, pos, BITS_TO_ENCODE_MODE), LAMBDA tr :
    IF tr.err # "none" THEN ModeErr(tr.err, tr.pos)
    ELSE IF tr.val = 0 THEN [err |-> "none", mode |-> Classic, pos |-> tr.pos]
    ELSE IF tr.val = 1 THEN [err |-> "none", mode |-> Gcd, pos |-> tr.pos]
    ELSE IF tr.val = 2
      THEN Bind(read_uint(bits, tr.pos, UBITS), LAMBDA fr :
             IF fr.err # "none" THEN ModeErr(fr.err, fr.pos)
             ELSE [err |-> "none", mode |-> FloatMult(from_unsigned(fr.val)),
                   pos |-> fr.pos])
    ELSE ModeErr("compatibility", tr.pos))

\* The `(n, compressed_body_size)` pair read at the head of parse_from.
parse_sizes(bits, start, use_wrapped_mode) ==
  IF use_wrapped_mode
    THEN [err |-> "none", n |-> 0, compressed_body_size |-> 0, pos |-> start]
  ELSE
    Bind(read_usize(bits, start, BITS_TO_ENCODE_N_ENTRIES), LAMBDA nr :
      IF nr.err # "none"
        THEN [err |-> nr.err, n |-> 0, compressed_body_size |-> 0,
              pos |-> nr.pos]
      ELSE Bind(read_usize(bits, nr.pos, BITS_TO_ENCODE_COMPRESSED_BODY_SIZE),
                LAMBDA cr :
        [err |-> cr.err, n |-> nr.val, compressed_body_size |-> cr.val,
         pos |-> cr.pos]))

ChunkMetadata_parse_from(bits, start, use_wrapped_mode) ==
  Bind(parse_sizes(bits, start, use_wrapped_mode), LAMBDA hr :
    IF hr.err # "none" THEN MetaErr(hr.err, hr.pos, 0, 0)
    ELSE Bind(parse_mode(bits, hr.pos), LAMBDA mr :
      IF mr.err # "none" THEN MetaErr(mr.err, mr.pos, 0, 0)
      ELSE Bind(read_usize(bits, mr.pos, BITS_TO_ENCODE_DELTA_ENCODING_ORDER),
                LAMBDA dr :
        IF dr.err # "none" THEN MetaErr(dr.err, dr.pos, 0, 0)
        ELSE Bind(parse_latents_loop(bits, dr.pos, mr.mode,
                                     n_latents(mr.mode), <<>>, 0),
                  LAMBDA lr :
          IF lr.err # "none"
            THEN MetaErr(lr.err, lr.pos, Len(lr.latents), lr.gcds)
          ELSE Bind(drain_empty_byte(bits, lr.pos), LAMBDA pr :
            IF pr.err # "none"
              THEN MetaErr(pr.err, pr.pos, Len(lr.latents), lr.gcds)
              ELSE [err |-> "none",
                    value |-> [n |-> hr.n,
                               compressed_body_size |-> hr.compressed_body_size,
                               mode |-> mr.mode,
                               delta_encoding_order |-> dr.val,
                               latents |-> lr.latents],
                    pos |-> pr.pos, latents |-> Len(lr.latents),
                    gcds |-> lr.gcds])))))

(***************************************************************************)
(* The trivial-stream query.  Indexing latents[1] of a value that holds a  *)
(* single latent panics.                                                   *)
(***************************************************************************)
\* The query, were FloatMult's count the number of nontrivial latents.
ChunkMetadata_nontrivial_gcd_and_n_latents_counting(meta) ==
  IF Len(meta.latents) = 0 THEN [panic |-> TRUE, gcd |-> FALSE, n |-> 0]
  ELSE
    LET primary_bins == meta.latents[1].bins
    IN  IF meta.mode.tag \in {"Classic", "Gcd"}
          THEN IF bins_are_trivial(primary_bins)
                 THEN [panic |-> FALSE, gcd |-> FALSE, n |-> 0]
                 ELSE [panic |-> FALSE, gcd |-> use_gcd_arithmetic(primary_bins),
                       n |-> 1]
        ELSE IF Len(meta.latents) < 2
          THEN [panic |-> TRUE, gcd |-> FALSE, n |-> 0]
        ELSE [panic |-> FALSE, gcd |-> FALSE,
              n |-> (IF bins_are_trivial(primary_bins) THEN 0 ELSE 1)
                    + (IF bins_are_trivial(meta.latents[2].bins) THEN 0 ELSE 1)]

ChunkMetadata_nontrivial_gcd_and_n_latents(meta) ==
  IF Len(meta.latents) = 0 THEN [panic |-> TRUE, gcd |-> FALSE, n |-> 0]
  ELSE
    LET primary_bins == meta.latents[1].bins
    IN  IF meta.mode.tag \in {"Classic", "Gcd"}
          THEN IF bins_are_trivial(primary_bins)
                 THEN [panic |-> FALSE, gcd |-> FALSE, n |-> 0]
                 ELSE [panic |-> FALSE, gcd |-> use_gcd_arithmetic(primary_bins),
                       n |-> 1]
        ELSE IF Len(meta.latents) < 2
          THEN [panic |-> TRUE, gcd |-> FALSE, n |-> 0]
        ELSE [panic |-> FALSE, gcd |-> FALSE,
              n |-> IF bins_are_trivial(meta.latents[2].bins)
                      THEN IF bins_are_trivial(primary_bins) THEN 0 ELSE 1
                      ELSE 2]

ChunkMetadata_latent_delta_order(meta, latent_idx) ==
  mode_latent_delta_order(meta.mode, latent_idx, meta.delta_encoding_order)

(***************************************************************************)
(* Page metadata.  DeltaMoments (crate::delta) writes and reads one full   *)
(* U-width value per moment; the number of moments is the latent's delta   *)
(* order, which the page does not store.                                   *)
(***************************************************************************)
RECURSIVE write_seq_loop(_, _, _, _)
\* write_diff of every element of vals from index i on, n bits each.
write_seq_loop(w, vals, n, i) ==
  IF i > Len(vals) THEN w
  ELSE write_seq_loop(write_diff(w, vals[i], n), vals, n, i + 1)

DeltaMoments_write_to(w, moments) ==
  write_seq_loop(w, moments, UBITS, 1)

RECURSIVE read_seq_loop(_, _, _, _, _)
\* `left` reads of n bits each, collected in order.
read_seq_loop(bits, pos, n, left, vals) ==
  IF left = 0 THEN [err |-> "none", vals |-> vals, pos |-> pos]
  ELSE
    Bind(read_uint(bits, pos, n), LAMBDA r :
      IF r.err # "none" THEN [err |-> r.err, vals |-> <<>>, pos |-> r.pos]
      ELSE read_seq_loop(bits, r.pos, n, left - 1, Append(vals, r.val)))

DeltaMoments_parse_from(bits, pos, order) ==
  read_seq_loop(bits, pos, UBITS, order, <<>>)

\* The page latent writer, were the final states written before the moments.
PageLatentMetadata_write_to_states_first(w, page_latent, ans_size_log) ==
  DeltaMoments_write_to(
    write_seq_loop(w, page_latent.ans_final_state_idxs, ans_size_log, 1),
    page_latent.delta_moments)

PageLatentMetadata_write_to(w, page_latent, ans_size_log) ==
  write_seq_loop(DeltaMoments_write_to(w, page_latent.delta_moments),
                 page_latent.ans_final_state_idxs, ans_size_log, 1)

PageLatentMetadata_parse_from(bits, pos, delta_order, ans_size_log) ==
  Bind(DeltaMoments_parse_from(bits, pos, delta_order), LAMBDA mr :
    IF mr.err # "none" THEN [err |-> mr.err, latent |-> <<>>, pos |-> mr.pos]
    ELSE Bind(read_seq_loop(bits, mr.pos, ans_size_log, ANS_INTERLEAVING, <<>>),
              LAMBDA sr :
      IF sr.err # "none"
        THEN [err |-> sr.err, latent |-> <<>>, pos |-> sr.pos]
        ELSE [err |-> "none",
              latent |-> [delta_moments |-> mr.vals,
                          ans_final_state_idxs |-> sr.vals],
              pos |-> sr.pos]))

RECURSIVE write_page_latents_loop(_, _, _, _)
\* The loop of PageMetadata::write_to over the enumerated ans_size_logs.
write_page_latents_loop(w, page, ans_size_logs, i) ==
  IF i > Len(ans_size_logs) THEN w
  ELSE write_page_latents_loop(
         PageLatentMetadata_write_to(w, page.latents[i], ans_size_logs[i]),
         page, ans_size_logs, i + 1)

PageMetadata_write_fields(w, page, ans_size_logs) ==
  write_page_latents_loop(w, page, ans_size_logs, 1)

PageMetadata_write_to(w, page, ans_size_logs) ==
  finish_byte(PageMetadata_write_fields(w, page, ans_size_logs))

RECURSIVE parse_page_latents_loop(_, _, _, _, _)
\* The loop of PageMetadata::parse_from over chunk_meta.latents, from index i.
parse_page_latents_loop(bits, pos, chunk_meta, i, latents) ==
  IF i > Len(chunk_meta.latents)
    THEN [err |-> "none", latents |-> latents, pos |-> pos]
  ELSE
    Bind(PageLatentMetadata_parse_from(
           bits, pos, ChunkMetadata_latent_delta_order(chunk_meta, i - 1),
           chunk_meta.latents[i].ans_size_log),
         LAMBDA r :
      IF r.err # "none"
        THEN [err |-> r.err, latents |-> <<>>, pos |-> r.pos]
        ELSE parse_page_latents_loop(bits, r.pos, chunk_meta, i + 1,
                                     Append(latents, r.latent)))

PageMetadata_parse_from(bits, pos, chunk_meta) ==
  Bind(parse_page_latents_loop(bits, pos, chunk_meta, 1, <<>>), LAMBDA lr :
    IF lr.err # "none" THEN [err |-> lr.err, latents |-> <<>>, pos |-> lr.pos]
    ELSE Bind(drain_empty_byte(bits, lr.pos), LAMBDA pr :
      IF pr.err # "none"
        THEN [err |-> pr.err, latents |-> <<>>, pos |-> pr.pos]
        ELSE [err |-> "none", latents |-> lr.latents, pos |-> pr.pos]))

(***************************************************************************)
(* Inputs.  The values handed to write_to are drawn from bounded sets      *)
(* that hold valid values and, since nothing is validated on write, values *)
(* that break the data model's invariants.                                 *)
(***************************************************************************)
ChunkMetadata_new(n, mode, delta_encoding_order, latents) ==
  [n |-> n, compressed_body_size |-> 0, mode |-> mode,
   delta_encoding_order |-> delta_encoding_order, latents |-> latents]

Bin(weight, lower, offset_bits, gcd) ==
  [weight |-> weight, lower |-> lower, offset_bits |-> offset_bits,
   gcd |-> gcd]

BinPool ==
  { Bin(1, 0, 0, 1), Bin(2, 0, 0, 1), Bin(2, 5, 1, 1),
    Bin(1, UMAX, UBITS, 3), Bin(1, 8, 0, 3), Bin(1, 1, UBITS + 1, 1) }

BinSeqs == UNION {[1..k -> BinPool] : k \in 0..MaxBins}

Tables ==
  {[ans_size_log |-> a, bins |-> bs] : a \in 0..MaxAnsSizeLog, bs \in BinSeqs}

\* The bucket table of the spec's example scenario.
ExampleTable ==
  [ans_size_log |-> 2, bins |-> <<Bin(2, 0, 0, 1), Bin(2, 5, 1, 1)>>]

TrivialTable == [ans_size_log |-> 0, bins |-> <<Bin(1, 0, 0, 1)>>]

NValues == {0, 1000, 2^BITS_TO_ENCODE_N_ENTRIES - 1, 2^BITS_TO_ENCODE_N_ENTRIES}

DeltaOrders == {0, 1, 7}

FloatBases == {1, UMAX - 2}

FloatTables ==
  { TrivialTable, ExampleTable,
    [ans_size_log |-> 0, bins |-> <<Bin(1, UMAX, UBITS, 3)>>],
    [ans_size_log |-> 1, bins |-> <<Bin(1, 0, 0, 1)>>] }

SingleMetas ==
  {ChunkMetadata_new(1000, m, 0, <<t>>) : m \in {Classic, Gcd}, t \in Tables}

\* compressed_body_size is a public field: a value that was parsed, or
\* patched, holds a size other than the 0 that `new` sets.
HeaderMetas ==
  {[ChunkMetadata_new(n, m, d, <<ExampleTable>>)
      EXCEPT !.compressed_body_size = c] :
     n \in NValues, m \in {Classic, Gcd}, d \in DeltaOrders,
     c \in {0, 2^BITS_TO_ENCODE_COMPRESSED_BODY_SIZE - 1}}

FloatMetas ==
  {ChunkMetadata_new(1000, FloatMult(b), d, <<t1, t2>>) :
     b \in FloatBases, d \in {0, 1}, t1 \in FloatTables, t2 \in FloatTables}

\* Values whose latents list does not have the length the mode requires.
IllFormedMetas ==
  {ChunkMetadata_new(1000, Classic, 0, <<t, t>>) : t \in {TrivialTable, ExampleTable}}
  \cup {ChunkMetadata_new(1000, FloatMult(1), 0, <<t>>) :
          t \in {TrivialTable, ExampleTable}}

Metas == SingleMetas \cup HeaderMetas \cup FloatMetas \cup IllFormedMetas

BodySizes == {0, 1, 2, 2^BITS_TO_ENCODE_COMPRESSED_BODY_SIZE - 1}

\* A valid bucket table with the given ans_size_log.
TableOfSizeLog(a) ==
  IF a = 0 THEN TrivialTable
  ELSE [ans_size_log |-> a,
        bins |-> <<Bin(2^(a - 1), 0, 0, 1), Bin(2^(a - 1), 5, 1, 1)>>]

\* The chunk metadata that pages are written and parsed against.
PageChunkMetas ==
  {ChunkMetadata_new(1000, m, d, <<TableOfSizeLog(a)>>) :
     m \in {Classic, Gcd}, d \in DeltaOrders, a \in 0..MaxAnsSizeLog}
  \cup {ChunkMetadata_new(1000, FloatMult(1), d,
                          <<TableOfSizeLog(a1), TableOfSizeLog(a2)>>) :
          d \in DeltaOrders, a1 \in 0..MaxAnsSizeLog, a2 \in 0..MaxAnsSizeLog}

\* Delta moments: patterns 1..3 have the latent's delta order as length,
\* pattern 4 holds one moment too many.
MomentsOf(pattern, order) ==
  CASE pattern = 1 -> [j \in 1..order |-> 0]
    [] pattern = 2 -> [j \in 1..order |-> UMAX]
    [] pattern = 3 -> [j \in 1..order |-> (3 * j) % (2^UBITS)]
    [] pattern = 4 -> [j \in 1..(order + 1) |-> 1]

\* Final ANS state indices: patterns 1..3 lie in [0, 2^ans_size_log),
\* pattern 4 is out of that range.
StatesOf(pattern, ans_size_log) ==
  CASE pattern = 1 -> [k \in 1..ANS_INTERLEAVING |-> 0]
    [] pattern = 2 -> [k \in 1..ANS_INTERLEAVING |-> 2^ans_size_log - 1]
    [] pattern = 3 -> [k \in 1..ANS_INTERLEAVING |-> (k - 1) % (2^ans_size_log)]
    [] pattern = 4 -> [k \in 1..ANS_INTERLEAVING |-> 2^ans_size_log]

PageOf(chunk_meta, mp, sp) ==
  [latents |->
     [i \in 1..Len(chunk_meta.latents) |->
        [delta_moments |->
           MomentsOf(mp, ChunkMetadata_latent_delta_order(chunk_meta, i - 1)),
         ans_final_state_idxs |->
           StatesOf(sp, chunk_meta.latents[i].ans_size_log)]]]

Pages(chunk_meta) ==
  {PageOf(chunk_meta, mp, sp) : mp \in 1..4, sp \in 1..4}

AnsSizeLogs(chunk_meta) ==
  [i \in 1..Len(chunk_meta.latents) |-> chunk_meta.latents[i].ans_size_log]

(***************************************************************************)
(* State.                                                                  *)
(***************************************************************************)
VARIABLES
  pc,          \* where the caller is in the write / patch / parse sequence
  x,           \* the ChunkMetadata held by the writing side
  wrapped,     \* flags.use_wrapped_mode
  w,           \* the BitWriter
  bit_idx,     \* the writer's bit size when the chunk was begun
  meta_start,  \* the writer's bit size when write_to was entered
  fields_end,  \* the writer's bit size before write_to's finish_byte
  body_bytes,  \* number of body bytes written after the metadata
  patch_idx,   \* the bit_idx given to update_write_compressed_body_size, or -1
  flipped,     \* the stream position of the bit that was corrupted, or 0
  res,         \* what ChunkMetadata::parse_from returned
  query,       \* what nontrivial_gcd_and_n_latents returned
  page,        \* the PageMetadata that was written
  pres         \* what PageMetadata::parse_from returned

vars ==
  <<pc, x, wrapped, w, bit_idx, meta_start, fields_end, body_bytes, patch_idx,
    flipped, res, query, page, pres>>

NoRes == MetaErr("unparsed", 0, 0, 0)

NoQuery == [panic |-> FALSE, gcd |-> FALSE, n |-> -1]

NoPage == [latents |-> <<>>]

NoPres == [err |-> "unparsed", latents |-> <<>>, pos |-> 0]

Unused ==
  /\ w = NewWriter
  /\ bit_idx = 0
  /\ meta_start = 0
  /\ fields_end = 0
  /\ body_bytes = 0
  /\ patch_idx = -1
  /\ flipped = 0
  /\ res = NoRes
  /\ query = NoQuery
  /\ page = NoPage
  /\ pres = NoPres

\* A chunk's metadata is about to be written.
ChunkInit ==
  /\ pc = "start"
  /\ x \in Metas
  /\ wrapped \in BOOLEAN
  /\ Unused

\* A page's metadata is about to be written against chunk metadata x.
PageInit ==
  /\ pc = "page_start"
  /\ x \in PageChunkMetas
  /\ wrapped = FALSE
  /\ Unused

Init == ChunkInit \/ PageInit

FlipAt(bits, i) == [bits EXCEPT ![i] = 1 - @]

\* The caller starts a chunk: it notes the writer's position and, in the
\* standalone format, writes the aligned marker byte.  A standalone stream
\* may already hold bytes (the file header, earlier chunks).
BeginChunk ==
  /\ pc = "start"
  /\ \E prior \in 0..(IF wrapped THEN 0 ELSE MaxPriorBytes) :
       LET w0 == [w EXCEPT !.bits = [i \in 1..(8 * prior) |-> 1]]
       IN  /\ bit_idx' = Len(w0.bits)
           /\ w' = IF wrapped THEN w0
                   ELSE write_aligned_byte(w0, MAGIC_CHUNK_BYTE)
  /\ pc' = "begun"
  /\ UNCHANGED <<x, wrapped, meta_start, fields_end, body_bytes, patch_idx,
                 flipped, res, query, page, pres>>

WriteTo ==
  /\ pc = "begun"
  /\ meta_start' = Len(w.bits)
  /\ fields_end' = Len(ChunkMetadata_write_fields(w, x, wrapped).bits)
  /\ w' = ChunkMetadata_write_to(w, x, wrapped)
  /\ pc' = "written"
  /\ UNCHANGED <<x, wrapped, bit_idx, body_bytes, patch_idx, flipped, res,
                 query, page, pres>>

\* The compressed body follows the metadata; its length becomes the value's
\* compressed_body_size.
WriteBody ==
  /\ pc = "written"
  /\ ~wrapped
  /\ \E size \in BodySizes, fill \in {0, 1} :
       /\ w' = [w EXCEPT !.bits = @ \o [i \in 1..(8 * size) |-> fill]]
       /\ body_bytes' = size
       /\ x' = [x EXCEPT !.compressed_body_size = size]
  /\ pc' = "body"
  /\ UNCHANGED <<wrapped, bit_idx, meta_start, fields_end, patch_idx, flipped,
                 res, query, page, pres>>

\* The back-patch.  The caller passes the position it noted when it began
\* the chunk.
UpdateWriteCompressedBodySize ==
  /\ pc = "body"
  /\ w' = ChunkMetadata_update_write_compressed_body_size(w, x, bit_idx)
  /\ patch_idx' = bit_idx
  /\ pc' = "patched"
  /\ UNCHANGED <<x, wrapped, bit_idx, meta_start, fields_end, body_bytes,
                 flipped, res, query, page, pres>>

\* One bit of the stored metadata is corrupted.
FlipBit ==
  /\ pc = "written"
  /\ \E i \in (meta_start + 1)..Len(w.bits) :
       /\ w' = [w EXCEPT !.bits = FlipAt(@, i)]
       /\ flipped' = i
  /\ pc' = "tampered"
  /\ UNCHANGED <<x, wrapped, bit_idx, meta_start, fields_end, body_bytes,
                 patch_idx, res, query, page, pres>>

ParseFrom ==
  /\ pc \in {"written", "tampered", "patched"}
  /\ res' = ChunkMetadata_parse_from(w.bits, meta_start, wrapped)
  /\ pc' = "parsed"
  /\ UNCHANGED <<x, wrapped, w, bit_idx, meta_start, fields_end, body_bytes,
                 patch_idx, flipped, query, page, pres>>

NontrivialGcdAndNLatents ==
  /\ pc = "parsed"
  /\ res.err = "none"
  /\ query' = ChunkMetadata_nontrivial_gcd_and_n_latents(res.value)
  /\ pc' = "queried"
  /\ UNCHANGED <<x, wrapped, w, bit_idx, meta_start, fields_end, body_bytes,
                 patch_idx, flipped, res, page, pres>>

PageWriteTo ==
  /\ pc = "page_start"
  /\ \E p \in Pages(x) :
       /\ page' = p
       /\ fields_end' = Len(PageMetadata_write_fields(w, p, AnsSizeLogs(x)).bits)
       /\ w' = PageMetadata_write_to(w, p, AnsSizeLogs(x))
  /\ meta_start' = Len(w.bits)
  /\ pc' = "page_written"
  /\ UNCHANGED <<x, wrapped, bit_idx, body_bytes, patch_idx, flipped, res,
                 query, pres>>

\* One bit of the stored page metadata is corrupted.
PageFlipBit ==
  /\ pc = "page_written"
  /\ \E i \in (meta_start + 1)..Len(w.bits) :
       /\ w' = [w EXCEPT !.bits = FlipAt(@, i)]
       /\ flipped' = i
  /\ pc' = "page_tampered"
  /\ UNCHANGED <<x, wrapped, bit_idx, meta_start, fields_end, body_bytes,
                 patch_idx, res, query, page, pres>>

PageParseFrom ==
  /\ pc \in {"page_written", "page_tampered"}
  /\ pres' = PageMetadata_parse_from(w.bits, meta_start, x)
  /\ pc' = "page_parsed"
  /\ UNCHANGED <<x, wrapped, w, bit_idx, meta_start, fields_end, body_bytes,
                 patch_idx, flipped, res, query, page>>

Next ==
  \/ BeginChunk
  \/ WriteTo
  \/ WriteBody
  \/ UpdateWriteCompressedBodySize
  \/ FlipBit
  \/ ParseFrom
  \/ NontrivialGcdAndNLatents
  \/ PageWriteTo
  \/ PageFlipBit
  \/ PageParseFrom

Spec == Init /\ [][Next]_vars

(***************************************************************************)
(* Vocabulary of the properties.                                           *)
(***************************************************************************)
RECURSIVE SumWeights(_)
SumWeights(bins) ==
  IF bins = <<>> THEN 0 ELSE bins[1].weight + SumWeights(Tail(bins))

\* The validity the round-trip property of the specification lists.
ListedValid(meta) ==
  /\ meta.mode.tag \in {"Classic", "Gcd", "FloatMult"}
  /\ meta.delta_encoding_order \in 0..7
  /\ Len(meta.latents) = n_latents(meta.mode)
  /\ \A i \in 1..Len(meta.latents) :
       /\ meta.latents[i].bins # <<>>
       /\ SumWeights(meta.latents[i].bins) = 2^(meta.latents[i].ans_size_log)

\* Every stored field of every latent fits the width it is stored in.
LatentsStorable(meta) ==
  \A i \in 1..Len(meta.latents) :
    /\ meta.latents[i].ans_size_log < 2^BITS_TO_ENCODE_ANS_SIZE_LOG
    /\ Len(meta.latents[i].bins) < 2^BITS_TO_ENCODE_N_BINS
    /\ \A j \in 1..Len(meta.latents[i].bins) :
         meta.latents[i].bins[j].offset_bits < 2^bits_to_encode_offset_bits

\* What parse_bins refuses in a table: more bins than 2^ans_size_log, a single
\* bin with ans_size_log > 0, an offset_bits above U::BITS.
TableCorrupt(latent) ==
  \/ 2^(latent.ans_size_log) < Len(latent.bins)
  \/ Len(latent.bins) = 1 /\ latent.ans_size_log > 0
  \/ \E j \in 1..Len(latent.bins) : latent.bins[j].offset_bits > UBITS

\* The value is one the format can hold: sizes fit their fields, no table is
\* one parse_bins refuses and a bin whose gcd is not stored has gcd 1.
Storable(meta) ==
  /\ meta.n < 2^BITS_TO_ENCODE_N_ENTRIES
  /\ meta.compressed_body_size < 2^BITS_TO_ENCODE_COMPRESSED_BODY_SIZE
  /\ LatentsStorable(meta)
  /\ \A i \in 1..Len(meta.latents) :
       /\ ~TableCorrupt(meta.latents[i])
       /\ \A j \in 1..Len(meta.latents[i].bins) :
            LET bin == meta.latents[i].bins[j]
            IN  (meta.mode.tag # "Gcd" \/ bin.offset_bits = 0) => bin.gcd = 1

\* The stream is as write_to left it.
Untampered == flipped = 0 /\ patch_idx = -1

Parsed == pc \in {"parsed", "queried"}

\* What a round trip of meta returns: in wrapped mode the two sizes are not
\* stored and parse_from returns 0 for both.
AsStored(meta, use_wrapped_mode) ==
  [meta EXCEPT !.n = IF use_wrapped_mode THEN 0 ELSE @,
               !.compressed_body_size = IF use_wrapped_mode THEN 0 ELSE @]

\* Where the mode tag is stored, and the tag the stream holds there.
TagPos ==
  meta_start + (IF wrapped THEN 0
                ELSE BITS_TO_ENCODE_N_ENTRIES + BITS_TO_ENCODE_COMPRESSED_BODY_SIZE)

StoredTag == ValueAt(w.bits, TagPos, BITS_TO_ENCODE_MODE)

\* Where the first latent is stored, given the stored tag.
FirstLatentPos ==
  TagPos + BITS_TO_ENCODE_MODE + (IF StoredTag = 2 THEN UBITS ELSE 0)
  + BITS_TO_ENCODE_DELTA_ENCODING_ORDER

FirstLatentStored ==
  /\ StoredTag \in {0, 1, 2}
  /\ FirstLatentPos + BITS_TO_ENCODE_ANS_SIZE_LOG + BITS_TO_ENCODE_N_BINS
       <= Len(w.bits)

StoredAnsSizeLog == ValueAt(w.bits, FirstLatentPos, BITS_TO_ENCODE_ANS_SIZE_LOG)

StoredNBins ==
  ValueAt(w.bits, FirstLatentPos + BITS_TO_ENCODE_ANS_SIZE_LOG,
          BITS_TO_ENCODE_N_BINS)

RECURSIVE GcdBins(_, _)
\* Number of bins whose gcd is stored under the given mode.
GcdBins(bins, mode) ==
  IF bins = <<>> THEN 0
  ELSE (IF mode.tag = "Gcd" /\ bins[1].offset_bits > 0 THEN 1 ELSE 0)
       + GcdBins(Tail(bins), mode)

RECURSIVE GcdFields(_, _)
GcdFields(latents, mode) ==
  IF latents = <<>> THEN 0
  ELSE GcdBins(latents[1].bins, mode) + GcdFields(Tail(latents), mode)

RECURSIVE LatentsBits(_, _)
\* The width of the latent records, field by field, from the layout table.
LatentsBits(latents, mode) ==
  IF latents = <<>> THEN 0
  ELSE BITS_TO_ENCODE_ANS_SIZE_LOG + BITS_TO_ENCODE_N_BINS
       + Len(latents[1].bins)
           * (latents[1].ans_size_log + UBITS + bits_to_encode_offset_bits)
       + UBITS * GcdBins(latents[1].bins, mode)
       + LatentsBits(Tail(latents), mode)

LayoutBits(meta, use_wrapped_mode) ==
  (IF use_wrapped_mode THEN 0
   ELSE BITS_TO_ENCODE_N_ENTRIES + BITS_TO_ENCODE_COMPRESSED_BODY_SIZE)
  + BITS_TO_ENCODE_MODE
  + (IF meta.mode.tag = "FloatMult" THEN UBITS ELSE 0)
  + BITS_TO_ENCODE_DELTA_ENCODING_ORDER
  + LatentsBits(meta.latents, meta.mode)

ToByte(nbits) == nbits + ((8 - (nbits % 8)) % 8)

PageConsistent(p, chunk_meta) ==
  /\ Len(p.latents) = Len(chunk_meta.latents)
  /\ \A i \in 1..Len(p.latents) :
       /\ Len(p.latents[i].delta_moments)
            = ChunkMetadata_latent_delta_order(chunk_meta, i - 1)
       /\ Len(p.latents[i].ans_final_state_idxs) = ANS_INTERLEAVING
       /\ \A k \in 1..ANS_INTERLEAVING :
            p.latents[i].ans_final_state_idxs[k]
              \in 0..(2^(chunk_meta.latents[i].ans_size_log) - 1)

\* Number of the value's latents whose bucket table is not trivial.
NontrivialLatents(meta) ==
  Cardinality({i \in 1..Len(meta.latents) :
                 ~bins_are_trivial(meta.latents[i].bins)})

(***************************************************************************)
(* C1, as stated: for every valid ChunkMetadata x and both flag settings,  *)
(* parse_from applied to the bits of write_to(x) succeeds and returns a    *)
(* value equal to x in every field, n and compressed_body_size included.   *)
(***************************************************************************)
C1_RoundTripEveryField ==
  (Parsed /\ Untampered /\ ListedValid(x))
    => (res.err = "none" /\ res.value = x)

(***************************************************************************)
(* C1, amended: for every valid x that the format can hold (sizes within   *)
(* their field widths, no table that parse_bins refuses, e.g. a single bin *)
(* of weight 2 with ans_size_log = 1, and gcd = 1 wherever the gcd is not  *)
(* stored), parse_from(write_to(x)) succeeds, consumes the whole           *)
(* stream and returns x's mode, delta order and latents; in standalone     *)
(* mode it also returns x's n and compressed_body_size, in wrapped mode it *)
(* returns 0 for both whatever x held.                                     *)
(***************************************************************************)
C1_RoundTrip ==
  (Parsed /\ Untampered /\ ListedValid(x) /\ Storable(x))
    => /\ res.err = "none"
       /\ res.value = AsStored(x, wrapped)
       /\ res.pos = Len(w.bits)

\* A wrapped round trip of a valid value with n = 1000 that came back with n = 0.
C1_Witness ==
  /\ pc = "parsed" /\ Untampered /\ ListedValid(x) /\ Storable(x)
  /\ wrapped /\ x.n = 1000 /\ x.mode.tag = "Gcd"
  /\ res.err = "none" /\ res.value.n = 0 /\ res.value.latents = x.latents

(***************************************************************************)
(* C2: in standalone mode, write_to, then N body bytes, then               *)
(* update_write_compressed_body_size(writer, bit_idx), bit_idx being the   *)
(* position the caller noted when it began the chunk, yield a stream from  *)
(* which parse_from returns compressed_body_size = N for every N up to the *)
(* field's maximum: the overwrite at bit_idx + BITS_TO_ENCODE_N_ENTRIES + 8*)
(* lands on the bits write_to used for the field, and on no other field.   *)
(***************************************************************************)
C2_Backpatch ==
  (Parsed /\ patch_idx # -1 /\ ListedValid(x) /\ Storable(x))
    => /\ res.err = "none"
       /\ res.value.compressed_body_size = body_bytes
       /\ res.value = x
       /\ patch_idx + BITS_TO_ENCODE_N_ENTRIES + 8
            = meta_start + BITS_TO_ENCODE_N_ENTRIES

\* A back-patch of the largest size the field holds, parsed back.
C2_Witness ==
  /\ pc = "parsed" /\ patch_idx = 8 /\ ~wrapped
  /\ ListedValid(x) /\ Storable(x)
  /\ body_bytes = 2^BITS_TO_ENCODE_COMPRESSED_BODY_SIZE - 1
  /\ res.err = "none" /\ res.value.compressed_body_size = body_bytes

(***************************************************************************)
(* C3: parsing a bucket table returns a corruption error and no value when *)
(* the stored bucket count c exceeds 2^ans_size_log, when c = 1 and        *)
(* ans_size_log > 0, and when a bucket's stored offset_bits exceeds        *)
(* U::BITS.  The first conjunct reads c and ans_size_log of the first      *)
(* latent from the stream itself (corrupted or not); the second covers     *)
(* every latent and bucket of a stream written from a value whose tables   *)
(* break one of the three rules.                                           *)
(***************************************************************************)
C3_CorruptTableRejected ==
  /\ (Parsed /\ FirstLatentStored
        /\ (2^StoredAnsSizeLog < StoredNBins
              \/ (StoredNBins = 1 /\ StoredAnsSizeLog > 0)))
       => (res.err = "corruption" /\ res.value = NoMeta /\ res.latents = 0)
  /\ (Parsed /\ Untampered /\ Len(x.latents) = n_latents(x.mode)
        /\ LatentsStorable(x)
        /\ \E i \in 1..Len(x.latents) : TableCorrupt(x.latents[i]))
       => (res.err = "corruption" /\ res.value = NoMeta)

\* A stream whose second bucket stores offset_bits = U::BITS + 1, rejected.
C3_Witness ==
  /\ pc = "parsed" /\ Untampered /\ LatentsStorable(x)
  /\ Len(x.latents) = 1 /\ Len(x.latents[1].bins) = 2
  /\ x.latents[1].ans_size_log = 1
  /\ x.latents[1].bins[1].offset_bits <= UBITS
  /\ x.latents[1].bins[2].offset_bits > UBITS
  /\ res.err = "corruption" /\ res.value = NoMeta

(***************************************************************************)
(* C4: for every stored mode tag outside {0, 1, 2}, wrapped or standalone, *)
(* parse_from returns a compatibility error and no value, and the reader   *)
(* stops right after the tag: no delta order and no latent is read.        *)
(***************************************************************************)
C4_UnknownModeTag ==
  (Parsed /\ StoredTag \notin {0, 1, 2})
    => /\ res.err = "compatibility"
       /\ res.value = NoMeta
       /\ res.pos = TagPos + BITS_TO_ENCODE_MODE
       /\ res.latents = 0

\* A standalone stream whose tag was corrupted to an unknown value, parsed.
C4_Witness ==
  /\ pc = "parsed" /\ ~wrapped /\ flipped # 0
  /\ StoredTag \notin {0, 1, 2}
  /\ res.err = "compatibility"

(***************************************************************************)
(* C5: write_to of chunk and of page metadata ends on a byte boundary,     *)
(* the padding being zero bits; and when a padding bit that follows the    *)
(* last latent of a valid chunk's metadata, or of a consistent page's      *)
(* metadata, is non-zero, parse_from returns an error (a corruption error, *)
(* raised where the fields end) and no value.                              *)
(***************************************************************************)
C5_PaddingChecked ==
  /\ pc \in {"written", "page_written"}
       => /\ Len(w.bits) % 8 = 0
          /\ Len(w.bits) = ToByte(fields_end)
          /\ \A i \in (fields_end + 1)..Len(w.bits) : w.bits[i] = 0
  /\ (Parsed /\ patch_idx = -1 /\ flipped > fields_end
        /\ ListedValid(x) /\ Storable(x))
       => (res.err = "corruption" /\ res.value = NoMeta /\ res.pos = fields_end)
  /\ (pc = "page_parsed" /\ flipped > fields_end /\ PageConsistent(page, x))
       => (pres.err = "corruption" /\ pres.latents = <<>>
             /\ pres.pos = fields_end)

\* A page whose padding bit was set, and which parse_from refused.
C5_Witness ==
  /\ pc = "page_parsed" /\ flipped > fields_end /\ PageConsistent(page, x)
  /\ x.mode.tag = "FloatMult"
  /\ pres.err = "corruption"

(***************************************************************************)
(* C6, as stated: write_to writes exactly 1 latent record when mode is     *)
(* Classic or Gcd and exactly 2 when mode is FloatMult, regardless of the  *)
(* length of the latents list held by the value being written.             *)
(***************************************************************************)
C6_WrittenCountFixedByMode ==
  pc = "written" => w.latents = n_latents(x.mode)

(***************************************************************************)
(* C6, amended: parse_from reads exactly 1 latent record when the mode is  *)
(* Classic or Gcd and exactly 2 when it is FloatMult, whatever the buckets *)
(* hold; write_to writes one record per element of the value's latents     *)
(* list, which is 1 resp. 2 records only when that list has the length the *)
(* mode requires.                                                          *)
(***************************************************************************)
C6_LatentCount ==
  /\ pc = "written" => w.latents = Len(x.latents)
  /\ (pc = "written" /\ Len(x.latents) = n_latents(x.mode))
       => w.latents = (IF x.mode.tag = "FloatMult" THEN 2 ELSE 1)
  /\ (Parsed /\ res.err = "none")
       => /\ res.latents = (IF res.value.mode.tag = "FloatMult" THEN 2 ELSE 1)
          /\ Len(res.value.latents) = res.latents
  /\ (Parsed /\ StoredTag \in {0, 1, 2})
       => res.latents <= (IF StoredTag = 2 THEN 2 ELSE 1)

\* A Classic value holding two latents, both of which write_to wrote and only
\* the first of which parse_from read.
C6_Witness ==
  /\ pc = "parsed" /\ Untampered
  /\ x.mode.tag = "Classic" /\ Len(x.latents) = 2 /\ w.latents = 2
  /\ res.err = "none" /\ res.latents = 1

(***************************************************************************)
(* C7: for every PageMetadata consistent with the chunk's metadata (one    *)
(* page latent per latent, delta_moments of the latent's delta order,      *)
(* every final state index in [0, 2^ans_size_log)), parse_from applied to  *)
(* the bits of write_to succeeds, consumes them all and returns the same   *)
(* delta moments and the same ANS_INTERLEAVING final state indices for     *)
(* every latent.                                                           *)
(***************************************************************************)
C7_PageRoundTrip ==
  (pc = "page_parsed" /\ flipped = 0 /\ PageConsistent(page, x))
    => /\ pres.err = "none"
       /\ pres.latents = page.latents
       /\ pres.pos = Len(w.bits)
       /\ \A i \in 1..Len(pres.latents) :
            Len(pres.latents[i].ans_final_state_idxs) = ANS_INTERLEAVING

\* A two-latent page with delta moments and non-zero final states, returned.
C7_Witness ==
  /\ pc = "page_parsed" /\ flipped = 0 /\ PageConsistent(page, x)
  /\ x.mode.tag = "FloatMult" /\ x.delta_encoding_order = 7
  /\ x.latents[1].ans_size_log = MaxAnsSizeLog
  /\ page.latents[1].delta_moments[7] # 0
  /\ page.latents[1].ans_final_state_idxs[ANS_INTERLEAVING] # 0
  /\ pres.err = "none" /\ pres.latents = page.latents

(***************************************************************************)
(* C8, as stated: for Classic and Gcd the query returns (false, 0) when    *)
(* the primary table is trivial and otherwise (g, 1), g saying whether GCD *)
(* arithmetic is needed; for FloatMult the flag is false and the count is  *)
(* the number of the two latents whose tables are not trivial.             *)
(***************************************************************************)
C8_CountsNontrivialLatents ==
  pc = "queried" =>
    LET v == res.value
        primary_bins == v.latents[1].bins
    IN  /\ ~query.panic
        /\ v.mode.tag \in {"Classic", "Gcd"}
             => IF bins_are_trivial(primary_bins)
                  THEN query.gcd = FALSE /\ query.n = 0
                  ELSE query.gcd = use_gcd_arithmetic(primary_bins)
                       /\ query.n = 1
        /\ v.mode.tag = "FloatMult"
             => query.gcd = FALSE /\ query.n = NontrivialLatents(v)

(***************************************************************************)
(* C8, amended: Classic and Gcd as stated.  For FloatMult the flag is      *)
(* false and the count is 2 whenever the second latent's table is not      *)
(* trivial, also when the first one's is trivial; it is 1 when only the    *)
(* first latent's table is not trivial and 0 when both are trivial.  The   *)
(* Classic chunk with buckets {2, 0, 0, 1}, {2, 5, 1, 1} reports           *)
(* (false, 1).                                                             *)
(***************************************************************************)
C8_NontrivialGcdAndNLatents ==
  pc = "queried" =>
    LET v == res.value
        primary_bins == v.latents[1].bins
    IN  /\ ~query.panic
        /\ v.mode.tag \in {"Classic", "Gcd"}
             => IF bins_are_trivial(primary_bins)
                  THEN query.gcd = FALSE /\ query.n = 0
                  ELSE query.gcd = use_gcd_arithmetic(primary_bins)
                       /\ query.n = 1
        /\ v.mode.tag = "FloatMult"
             => /\ query.gcd = FALSE
                /\ query.n = 2 <=> ~bins_are_trivial(v.latents[2].bins)
                /\ query.n = 1 <=> (bins_are_trivial(v.latents[2].bins)
                                      /\ ~bins_are_trivial(primary_bins))
                /\ query.n = 0 <=> NontrivialLatents(v) = 0
        /\ (v.mode.tag = "Classic" /\ v.latents = <<ExampleTable>>)
             => (query.gcd = FALSE /\ query.n = 1)

\* A FloatMult value whose first table is trivial and whose second is not,
\* for which the query answered 2.
C8_Witness ==
  /\ pc = "queried" /\ res.value.mode.tag = "FloatMult"
  /\ bins_are_trivial(res.value.latents[1].bins)
  /\ ~bins_are_trivial(res.value.latents[2].bins)
  /\ query.n = 2 /\ query.gcd = FALSE

(***************************************************************************)
(* C9: write_bins emits a gcd field, U::BITS wide, for exactly the buckets *)
(* with mode = Gcd and offset_bits > 0, and parse_bins consumes one under  *)
(* the same condition, so that the written and the consumed widths are the *)
(* layout's; in every other case no gcd bits are written or read and the   *)
(* parsed bucket's gcd is 1, whatever gcd the written bucket held.         *)
(***************************************************************************)
C9_GcdFieldPresence ==
  /\ pc = "written"
       => /\ w.gcds = GcdFields(x.latents, x.mode)
          /\ fields_end - meta_start = LayoutBits(x, wrapped)
  /\ (Parsed /\ res.err = "none")
       => /\ res.gcds = GcdFields(res.value.latents, res.value.mode)
          /\ res.pos - meta_start = ToByte(LayoutBits(res.value, wrapped))
          /\ \A i \in 1..Len(res.value.latents) :
               \A j \in 1..Len(res.value.latents[i].bins) :
                 LET bin == res.value.latents[i].bins[j]
                 IN  (res.value.mode.tag # "Gcd" \/ bin.offset_bits = 0)
                       => bin.gcd = 1
  /\ (Parsed /\ Untampered /\ res.err = "none"
        /\ Len(x.latents) = n_latents(x.mode))
       => \A i \in 1..Len(x.latents) :
            /\ Len(res.value.latents[i].bins) = Len(x.latents[i].bins)
            /\ \A j \in 1..Len(x.latents[i].bins) :
                 res.value.latents[i].bins[j].gcd
                   = IF x.mode.tag = "Gcd" /\ x.latents[i].bins[j].offset_bits > 0
                       THEN x.latents[i].bins[j].gcd
                       ELSE 1

\* A Gcd table with one bucket whose gcd 3 is stored and read back, and one
\* whose gcd 3 is not stored and reads back as 1.
C9_Witness ==
  /\ pc = "parsed" /\ Untampered /\ res.err = "none"
  /\ x.mode.tag = "Gcd" /\ Len(x.latents[1].bins) = 2
  /\ x.latents[1].bins[1].gcd = 3 /\ x.latents[1].bins[1].offset_bits > 0
  /\ x.latents[1].bins[2].gcd = 3 /\ x.latents[1].bins[2].offset_bits = 0
  /\ res.value.latents[1].bins[1].gcd = 3
  /\ res.value.latents[1].bins[2].gcd = 1
  /\ w.gcds = 1 /\ res.gcds = 1

(***************************************************************************)
(* C10, as stated: every bucket table returned by a successful parse has   *)
(* every weight at least 1 and its weights sum to 2^ans_size_log of the    *)
(* latent.                                                                 *)
(***************************************************************************)
C10_WeightsSumToTableSize ==
  (Parsed /\ res.err = "none")
    => \A i \in 1..Len(res.value.latents) :
         LET latent == res.value.latents[i]
         IN  /\ \A j \in 1..Len(latent.bins) : latent.bins[j].weight >= 1
             /\ SumWeights(latent.bins) = 2^(latent.ans_size_log)

(***************************************************************************)
(* C10, amended: every bucket table returned by a successful parse has     *)
(* every weight between 1 and 2^ans_size_log, at most 2^ans_size_log       *)
(* buckets, and ans_size_log = 0 (hence weight 1) when it has exactly one  *)
(* bucket; the sum of the weights is not checked, and a table with no      *)
(* bucket, or one whose weights sum to another value, is returned as read. *)
(***************************************************************************)
C10_ParsedWeights ==
  (Parsed /\ res.err = "none")
    => \A i \in 1..Len(res.value.latents) :
         LET latent == res.value.latents[i]
         IN  /\ \A j \in 1..Len(latent.bins) :
                  latent.bins[j].weight \in 1..(2^(latent.ans_size_log))
             /\ Len(latent.bins) <= 2^(latent.ans_size_log)
             /\ Len(latent.bins) = 1
                  => (latent.ans_size_log = 0 /\ latent.bins[1].weight = 1)
             /\ Len(latent.bins) <= SumWeights(latent.bins)
             /\ SumWeights(latent.bins)
                  <= Len(latent.bins) * 2^(latent.ans_size_log)

\* A successfully parsed table of two buckets whose weights sum to 3 while
\* 2^ans_size_log is 2.
C10_Witness ==
  /\ pc = "parsed" /\ res.err = "none"
  /\ Len(res.value.latents[1].bins) = 2
  /\ res.value.latents[1].ans_size_log = 1
  /\ SumWeights(res.value.latents[1].bins) = 3

====
